---- MODULE Spec2Model ----
(***************************************************************************)
(* Model of scripts/update_gallery.py: the gallery reconciler.  The state  *)
(* is the images directory, the content of images/gallery.json and the     *)
(* position of a run inside atomic_write.  Strings are TLC strings; paths  *)
(* and file names are computed with Len, SubSeq and \o as the code does    *)
(* with pathlib and str.                                                   *)
(***************************************************************************)
EXTENDS Integers, Sequences, FiniteSets, TLC

VARIABLES
    dir,          \* images directory: file name -> content kind
    galleryFile,  \* content of images/gallery.json
    edits,        \* number of hand edits of gallery.json made so far
    pc,           \* position of the current run ("idle" between runs)
    pending,      \* the run in flight: what main() holds when it calls atomic_write
    tmp,          \* content of the temporary file made by mkstemp
    last,         \* record of the last run that ended (NoRun after any other step)
    imagesDir,    \* whether the directory images/ exists
    im,           \* the image create_thumbnail holds in memory: its size and crop box
    runs,         \* two runs of main() at once: their local state and temporary files
    blog          \* blog_index_update.py: the loaded blogs, the clock and the list written

vars == <<dir, galleryFile, edits, pc, pending, tmp, last, imagesDir, im, runs, blog>>

-----------------------------------------------------------------------------
(* Bounds of the model *)

\* hand edits of gallery.json in one behaviour
MaxEdits == 1

\* largest width and height, in pixels, of an image given to make_center_square
MaxSide == 8

\* the number of blog files
MaxBlogs == 3

-----------------------------------------------------------------------------
(* Strings *)

\* the characters of the model's file names, in code point order
Chars == "-./0123456789ABCDEFGHIJKLMNOPQRSTUVWXYZ_abcdefghijklmnopqrstuvwxyz"
UpperChars == "ABCDEFGHIJKLMNOPQRSTUVWXYZ"
LowerChars == "abcdefghijklmnopqrstuvwxyz"

CharAt(s, i) == SubSeq(s, i, i)

IndexIn(alphabet, c) ==
    IF \E i \in 1..Len(alphabet) : CharAt(alphabet, i) = c
    THEN CHOOSE i \in 1..Len(alphabet) : CharAt(alphabet, i) = c
    ELSE 0

Ord(c) == IndexIn(Chars, c)

\* str.lower() on one character
LowerChar(c) ==
    IF IndexIn(UpperChars, c) > 0 THEN CharAt(LowerChars, IndexIn(UpperChars, c)) ELSE c

RECURSIVE Lower(_)
Lower(s) ==
    IF Len(s) = 0 THEN ""
    ELSE LowerChar(CharAt(s, 1)) \o Lower(SubSeq(s, 2, Len(s)))

StartsWith(s, p) == Len(p) <= Len(s) /\ SubSeq(s, 1, Len(p)) = p
EndsWith(s, p) == Len(p) <= Len(s) /\ SubSeq(s, Len(s) - Len(p) + 1, Len(s)) = p

\* str.lstrip(c)
RECURSIVE LStrip(_, _)
LStrip(s, c) ==
    IF Len(s) > 0 /\ CharAt(s, 1) = c THEN LStrip(SubSeq(s, 2, Len(s)), c) ELSE s

\* str.rfind("."), 1-based, 0 when there is none
RFindDot(s) ==
    LET D == {i \in 1..Len(s) : CharAt(s, i) = "."}
    IN IF D = {} THEN 0 ELSE CHOOSE i \in D : \A j \in D : j <= i

\* lexicographic order of two strings by code point (Python's str <)
RECURSIVE StrLess(_, _)
StrLess(a, b) ==
    IF Len(b) = 0 THEN FALSE
    ELSE IF Len(a) = 0 THEN TRUE
    ELSE IF CharAt(a, 1) = CharAt(b, 1)
         THEN StrLess(SubSeq(a, 2, Len(a)), SubSeq(b, 2, Len(b)))
         ELSE Ord(CharAt(a, 1)) < Ord(CharAt(b, 1))

\* sorted(): the elements of a set of strings in ascending order
RECURSIVE Sorted(_)
Sorted(S) ==
    IF S = {} THEN <<>>
    ELSE LET m == CHOOSE x \in S : \A y \in S \ {x} : StrLess(x, y)
         IN <<m>> \o Sorted(S \ {m})

-----------------------------------------------------------------------------
(* pathlib *)

\* PurePath.suffix of a file name
Suffix(name) ==
    LET i == RFindDot(name)
    IN IF i > 1 /\ i < Len(name) THEN SubSeq(name, i, Len(name)) ELSE ""

\* PurePath.stem of a file name
Stem(name) == SubSeq(name, 1, Len(name) - Len(Suffix(name)))

-----------------------------------------------------------------------------
(* Module constants of update_gallery.py *)

THUMB_SUFFIX == "-thumb"

\* content of images/gallery.json when the file does not exist
Absent == [kind |-> "absent"]
\* content that json.loads rejects
Garbage == [kind |-> "garbage"]
\* content that json.loads accepts and that is an object, {"photos": []},
\* instead of a list of entries
WrappedCatalog == [kind |-> "jsonobject", data |-> [photos |-> <<>>]]

\* the working directory of a run: BASE_DIR or another directory
Cwds == {"base", "elsewhere"}

\* no run has ended since the last change: how a run ended and its exit status
NoRun == [ran |-> FALSE, aborted |-> FALSE, how |-> "none", status |-> -1]
NoPending == [active |-> FALSE]

\* no two runs at once
NoRuns == [active |-> FALSE]

\* the blog index generator has not been started
NoBlogs == [stage |-> "none"]

\* create_thumbnail holds no image
NoImage == [w |-> 0, h |-> 0, cropped |-> FALSE, box |-> <<0, 0, 0, 0>>]

-----------------------------------------------------------------------------
(* Dictionaries: a catalog entry is a function from field names *)

Has(e, k) == k \in DOMAIN e
\* dict.get(k, d)
Get(e, k, d) == IF k \in DOMAIN e THEN e[k] ELSE d
\* e[k] = v
SetField(e, k, v) == [x \in DOMAIN e \cup {k} |-> IF x = k THEN v ELSE e[x]]
\* del e[k]
DelField(e, k) == [x \in DOMAIN e \ {k} |-> e[x]]

-----------------------------------------------------------------------------
(* The images directory *)

\* files a user puts into images/ (sunthumb.jpg is a photo, not a thumbnail)
UserFiles == {"a.jpg", "a.JPG", "b.jpeg", "sunthumb.jpg"}

\* what a user file may hold: a valid JPEG, or bytes PIL cannot decode
Contents(name) == IF name = "a.JPG" THEN {"jpeg", "corrupt"} ELSE {"jpeg"}

\* Image.open(src) ... im.convert("RGB") succeeds
Decodable(content) == content \in {"jpeg", "thumb"}

\* Path(p).exists() for a relative path p, resolved against the working directory
PathExists(cwd, p, d) ==
    IF p = "" THEN TRUE
    ELSE /\ cwd = "base"
         /\ StartsWith(p, "images/")
         /\ SubSeq(p, Len("images/") + 1, Len(p)) \in DOMAIN d

-----------------------------------------------------------------------------
(* Functions of update_gallery.py *)

is_image_file(name) == Lower(Suffix(name)) \in {".jpg", ".jpeg"}

\* mutant of make_center_square: the offsets are rounded up
make_center_square_Ceil(w, h) ==
    IF w = h THEN <<0, 0, w, h>>
    ELSE LET min_side == IF w < h THEN w ELSE h
             left == (w - min_side + 1) \div 2
             top == (h - min_side + 1) \div 2
         IN <<left, top, left + min_side, top + min_side>>

\* make_center_square(im) for an image of size w x h: the box (left, upper,
\* right, lower) of the returned image inside im; the whole image when w = h
make_center_square(w, h) ==
    IF w = h THEN <<0, 0, w, h>>
    ELSE LET min_side == IF w < h THEN w ELSE h
             left == (w - min_side) \div 2
             top == (h - min_side) \div 2
         IN <<left, top, left + min_side, top + min_side>>

\* mutant of IsSkippedAsThumb: no file is skipped
IsSkippedAsThumb_Never(name) == FALSE

\* line 119: the test that skips files "that are thumbs themselves"
IsSkippedAsThumb(name) == EndsWith(Lower(Stem(name)), LStrip(THUMB_SUFFIX, "-"))

\* line 122: the derived thumbnail file name
ThumbName(name) == Stem(name) \o THUMB_SUFFIX \o ".jpg"

\* every file name the directory can hold: the user's files and their thumbnails
AllNames == UserFiles \cup {ThumbName(n) : n \in UserFiles}
\* sorted() and is_image_file over all names, computed once
NameOrder == Sorted(AllNames)
ImageNames == {n \in AllNames : is_image_file(n)}
SkippedNames == {n \in AllNames : IsSkippedAsThumb(n)}
ThumbOf == [n \in AllNames |-> ThumbName(n)]

\* mutant of create_thumbnail: success is reported but nothing is saved
create_thumbnail_NoSave(src, dst, d) ==
    IF dst \in DOMAIN d \/ Decodable(d[src])
    THEN [ok |-> TRUE, dir |-> d, created |-> FALSE]
    ELSE [ok |-> FALSE, dir |-> d, created |-> FALSE]

\* mutant of create_thumbnail: the thumbnail is saved also when dst exists
create_thumbnail_Overwrites(src, dst, d) ==
    IF Decodable(d[src])
    THEN [ok |-> TRUE,
          dir |-> [x \in DOMAIN d \cup {dst} |-> IF x = dst THEN "thumb" ELSE d[x]],
          created |-> TRUE]
    ELSE [ok |-> dst \in DOMAIN d, dir |-> d, created |-> FALSE]

\* create_thumbnail(src, dst) on directory d: the result and the directory after
create_thumbnail(src, dst, d) ==
    IF dst \in DOMAIN d THEN [ok |-> TRUE, dir |-> d, created |-> FALSE]
    ELSE IF Decodable(d[src])
         THEN [ok |-> TRUE,
               dir |-> [x \in DOMAIN d \cup {dst} |-> IF x = dst THEN "thumb" ELSE d[x]],
               created |-> TRUE]
         ELSE [ok |-> FALSE, dir |-> d, created |-> FALSE]

json_dumps(g) == [kind |-> "json", data |-> g]

load_gallery(file) ==
    IF file.kind = "absent" THEN <<>>
    ELSE IF file.kind \in {"json", "jsonobject"} THEN file.data
    ELSE <<>>

\* lines 104-105: e.get raises AttributeError when gallery is an object, whose
\* iteration yields its keys (strings); nothing catches it
BuildLookupRaises(file) == file.kind = "jsonobject"

\* mutant of MissingDir: the directory is made and an empty catalog is written
MissingDir_Created == [made |-> TRUE, file |-> json_dumps(<<>>), status |-> 0]

\* lines 97-99: what a run leaves when images/ does not exist, and its exit status
MissingDir == [made |-> FALSE, file |-> Absent, status |-> 0]

\* mutant of normalize_key: the leading "./" is kept
normalize_key_Identity(p) == p

\* mutant of normalize_key: p[1:] instead of p[2:]
normalize_key_OffByOne(p) == IF StartsWith(p, "./") THEN SubSeq(p, 2, Len(p)) ELSE p

normalize_key(p) == IF StartsWith(p, "./") THEN SubSeq(p, 3, Len(p)) ELSE p

\* mutant of default_entry: the title is the file name, extension included
default_entry_TitleIsName(img_name, next_id) ==
    LET stem == Stem(img_name)
    IN [id |-> next_id,
        title |-> img_name,
        description |-> "NaN",
        category |-> "None",
        thumbnail |-> "./images/" \o stem \o THUMB_SUFFIX \o ".jpg",
        image |-> "./images/" \o stem \o ".jpg",
        location |-> "None",
        date |-> "2000-01-01",
        camera |-> "None",
        tags |-> <<"None">>]

default_entry(img_name, next_id) ==
    LET stem == Stem(img_name)
    IN [id |-> next_id,
        title |-> stem,
        description |-> "NaN",
        category |-> "None",
        thumbnail |-> "./images/" \o stem \o THUMB_SUFFIX \o ".jpg",
        image |-> "./images/" \o stem \o ".jpg",
        location |-> "None",
        date |-> "2000-01-01",
        camera |-> "None",
        tags |-> <<"None">>]

\* lines 103-107: the lookup from normalized image path to the entry (its index)
ExistingKeys(gallery) ==
    {normalize_key(Get(gallery[i], "image", "")) : i \in 1..Len(gallery)} \ {""}

Existing(gallery) ==
    [k \in ExistingKeys(gallery) |->
        CHOOSE i \in 1..Len(gallery) :
            /\ normalize_key(Get(gallery[i], "image", "")) = k
            /\ \A j \in 1..Len(gallery) :
                   normalize_key(Get(gallery[j], "image", "")) = k => j <= i]

\* mutant of MaxId: the id of the first entry instead of the largest
MaxId_First(gallery) == IF gallery = <<>> THEN 0 ELSE Get(Head(gallery), "id", 0)

\* line 109
RECURSIVE MaxId(_)
MaxId(gallery) ==
    IF gallery = <<>> THEN 0
    ELSE LET h == Get(Head(gallery), "id", 0)
             t == MaxId(Tail(gallery))
         IN IF h > t THEN h ELSE t

\* line 143: the path the entry's thumbnail field is tested at
CurThumb(ent) ==
    IF StartsWith(ent["thumbnail"], "./")
    THEN SubSeq(ent["thumbnail"], 3, Len(ent["thumbnail"]))
    ELSE ent["thumbnail"]

\* mutant of UpdateExisting: the entry is rebuilt from the defaults when its
\* thumbnail field is missing
UpdateExisting_Rebuilt(ent, rel_thumb_to_store, cwd, d) ==
    IF Get(ent, "thumbnail", "") = ""
    THEN [ent |-> [default_entry("x.jpg", ent["id"]) EXCEPT
                       !.thumbnail = rel_thumb_to_store, !.image = ent["image"]],
          changed |-> TRUE]
    ELSE [ent |-> ent, changed |-> FALSE]

\* mutant of UpdateExisting: every entry that is visited counts as a change
UpdateExisting_AlwaysChanged(ent, rel_thumb_to_store, cwd, d) ==
    IF Get(ent, "thumbnail", "") = ""
    THEN [ent |-> SetField(ent, "thumbnail", rel_thumb_to_store), changed |-> TRUE]
    ELSE IF ent["thumbnail"] # rel_thumb_to_store /\ ~PathExists(cwd, CurThumb(ent), d)
         THEN [ent |-> SetField(ent, "thumbnail", rel_thumb_to_store), changed |-> TRUE]
         ELSE [ent |-> ent, changed |-> TRUE]

\* lines 135-149: the entry found for an image, after the thumbnail field is ensured
UpdateExisting(ent, rel_thumb_to_store, cwd, d) ==
    IF Get(ent, "thumbnail", "") = ""
    THEN [ent |-> SetField(ent, "thumbnail", rel_thumb_to_store), changed |-> TRUE]
    ELSE IF ent["thumbnail"] # rel_thumb_to_store /\ ~PathExists(cwd, CurThumb(ent), d)
         THEN [ent |-> SetField(ent, "thumbnail", rel_thumb_to_store), changed |-> TRUE]
         ELSE [ent |-> ent, changed |-> FALSE]

\* mutant of NewEntry: the image path of default_entry is kept
NewEntry_DefaultImage(img_name, max_id, rel_image_to_store, rel_thumb_to_store) ==
    SetField(default_entry(img_name, max_id), "thumbnail", rel_thumb_to_store)

\* lines 153-158: the entry added for an image that has none
NewEntry(img_name, max_id, rel_image_to_store, rel_thumb_to_store) ==
    SetField(SetField(default_entry(img_name, max_id), "thumbnail", rel_thumb_to_store),
             "image", rel_image_to_store)

\* mutant of SkipFailed: the id is taken before the thumbnail is made
SkipFailed_TakesId(st, img) == [st EXCEPT !.failed = @ \cup {img}, !.max_id = @ + 1]

\* mutant of SkipFailed: the entry is added although no thumbnail was made
SkipFailed_AddsEntry(st, img) ==
    [st EXCEPT !.failed = @ \cup {img},
               !.max_id = @ + 1,
               !.new_entries = Append(@, NewEntry(img, st.max_id + 1, "./images/" \o img,
                                                   "./images/" \o ThumbOf[img])),
               !.changed = TRUE]

\* lines 124-126: the image whose thumbnail could not be made is skipped
SkipFailed(st, img) == [st EXCEPT !.failed = @ \cup {img}]

\* lines 117-159: one iteration of the loop over the image files
ProcessImage(st, img, existing, cwd) ==
    IF img \in SkippedNames THEN st
    ELSE
    LET thumb == ThumbOf[img]
        ct == create_thumbnail(img, thumb, st.dir)
        normalized == "images/" \o img
        rel_image_to_store == "./images/" \o img
        rel_thumb_to_store == "./images/" \o thumb
    IN IF ~ct.ok THEN SkipFailed(st, img)
       ELSE LET s1 == [st EXCEPT !.dir = ct.dir,
                                 !.created = IF ct.created THEN @ \cup {thumb} ELSE @]
            IN IF normalized \in DOMAIN existing
               THEN LET i == existing[normalized]
                        u == UpdateExisting(s1.gallery[i], rel_thumb_to_store, cwd, s1.dir)
                    IN [s1 EXCEPT !.gallery[i] = u.ent,
                                  !.changed = @ \/ u.changed]
               ELSE [s1 EXCEPT !.max_id = @ + 1,
                               !.new_entries = Append(@, NewEntry(img, s1.max_id + 1,
                                                   rel_image_to_store, rel_thumb_to_store)),
                               !.changed = TRUE]

RECURSIVE Loop(_, _, _, _)
Loop(st, files, existing, cwd) ==
    IF files = <<>> THEN st
    ELSE Loop(ProcessImage(st, Head(files), existing, cwd), Tail(files), existing, cwd)

\* mutant of ImageFiles: the files in the reverse of the sorted order
ImageFiles_Unsorted(d) ==
    SelectSeq([i \in 1..Len(NameOrder) |-> NameOrder[Len(NameOrder) + 1 - i]],
              LAMBDA p : p \in DOMAIN d /\ p \in ImageNames)

\* line 114
ImageFiles(d) == SelectSeq(NameOrder, LAMBDA p : p \in DOMAIN d /\ p \in ImageNames)

\* mutant of FinalGallery: the rebuild policy, which keeps only the entries whose
\* image file is present
FinalGallery_Rebuild(st) ==
    SelectSeq(st.gallery,
              LAMBDA e : \E f \in DOMAIN st.dir :
                            normalize_key(Get(e, "image", "")) = "images/" \o f)
        \o st.new_entries

\* mutant of FinalGallery: the renumbering policy, ids 1..N by sorted image path
FinalGallery_Renumbered(st) ==
    LET g == st.gallery \o st.new_entries
    IN [i \in 1..Len(g) |->
           SetField(g[i], "id",
                    1 + Cardinality({j \in 1..Len(g) : StrLess(g[j]["image"], g[i]["image"])}))]

\* lines 161-162: the loaded entries, then the new ones
FinalGallery(st) == st.gallery \o st.new_entries

\* lines 101-162 of main(): everything before the decision to write
MainBody(d, file, cwd) ==
    LET gallery == load_gallery(file)
        st0 == [gallery |-> gallery, max_id |-> MaxId(gallery), changed |-> FALSE,
                new_entries |-> <<>>, dir |-> d, failed |-> {}, created |-> {}]
        st == Loop(st0, ImageFiles(d), Existing(gallery), cwd)
    IN [gallery |-> FinalGallery(st),
        loaded |-> Len(gallery),
        changed |-> st.changed,
        dir |-> st.dir,
        failed |-> st.failed,
        created |-> st.created]

-----------------------------------------------------------------------------
(* atomic_write(path, data), step by step *)

\* the temporary file does not exist
NoTmp == [kind |-> "none"]
\* mkstemp: a new, empty file
EmptyTmp == [kind |-> "empty"]
\* a temporary file left behind by a run that did not reach os.replace
StaleTmp == [kind |-> "stale"]
\* a proper prefix of the text of data
Truncated(data) == [kind |-> "truncated", data |-> data.data]

\* mutant of AfterPartialWrite: the text is written to gallery.json itself
AfterPartialWrite_InPlace(file, data) == [gallery |-> Truncated(data), tmp |-> EmptyTmp]

\* line 71, before the buffer is flushed: the files after part of data is written
AfterPartialWrite(file, data) == [gallery |-> file, tmp |-> Truncated(data)]
\* lines 70-71, when the with block is left: the files after all of data is written
AfterWrite(file, data) == [gallery |-> file, tmp |-> data]
\* line 72, os.replace(tmp_path, path): the temporary file becomes gallery.json
AfterReplace(file, t) == [gallery |-> t, tmp |-> NoTmp]

\* mutant of atomic_write: a file that exists is not replaced
atomic_write_CreateOnly(file, data) ==
    IF file.kind = "absent" THEN [gallery |-> data, tmp |-> NoTmp]
    ELSE [gallery |-> file, tmp |-> data]

\* atomic_write run to its end without a failure
atomic_write(file, data) == AfterReplace(AfterWrite(file, data).gallery, AfterWrite(file, data).tmp)

-----------------------------------------------------------------------------
(* What a completed run leaves in "last" *)

\* what main() leaves: the directory and the content of gallery.json
Outcome(d, file, cwd) ==
    LET m == MainBody(d, file, cwd)
    IN [dir |-> m.dir,
        file |-> IF m.changed THEN atomic_write(file, json_dumps(m.gallery)).gallery ELSE file]

\* no run was killed just before this one
NoExpect == [active |-> FALSE]

\* the run before this one was killed inside the loop of main: the directory
\* and the gallery.json the killed run was started on
Recovers(prev) ==
    IF prev.aborted /\ prev.at \in {"loop", "save"}
    THEN [active |-> TRUE, dir0 |-> prev.dir0, file0 |-> prev.file0]
    ELSE NoExpect

RunRecord(m, d0, file0, wrote, prev) ==
    [ran |-> TRUE, aborted |-> FALSE, how |-> "completed", status |-> 0,
     dir0 |-> d0, file0 |-> file0,
     loaded |-> m.loaded, failed |-> m.failed, created |-> m.created,
     wrote |-> wrote, second |-> prev.ran,
     differs |-> m.gallery # load_gallery(file0),
     recovers |-> Recovers(prev)]

\* lines 97-99: the run has ended at sys.exit(0)
EarlyExit(status) == [ran |-> FALSE, aborted |-> FALSE, how |-> "nodir", status |-> status]

\* an exception nothing catches ends the run: traceback, exit status 1
Raised == [ran |-> FALSE, aborted |-> FALSE, how |-> "raised", status |-> 1]

-----------------------------------------------------------------------------
(* Initial state: an empty images directory and no gallery.json *)

Init ==
    /\ dir = <<>>
    /\ galleryFile = Absent
    /\ edits = 0
    /\ pc = "idle"
    /\ pending = NoPending
    /\ tmp = NoTmp
    /\ last = NoRun
    /\ imagesDir = TRUE
    /\ im = NoImage
    /\ runs = NoRuns
    /\ blog = NoBlogs

-----------------------------------------------------------------------------
(* The user, between runs *)

AddFile(name, content) ==
    /\ pc = "idle"
    /\ imagesDir
    /\ name \notin DOMAIN dir
    /\ dir' = [x \in DOMAIN dir \cup {name} |-> IF x = name THEN content ELSE dir[x]]
    /\ last' = NoRun
    /\ UNCHANGED <<blog, runs, imagesDir, im, galleryFile, edits, pc, pending, tmp>>

RemoveFile(name) ==
    /\ pc = "idle"
    /\ name \in DOMAIN dir
    /\ dir' = [x \in DOMAIN dir \ {name} |-> dir[x]]
    /\ last' = NoRun
    /\ UNCHANGED <<blog, runs, imagesDir, im, galleryFile, edits, pc, pending, tmp>>

\* the metadata a user types into an entry
UserMeta ==
    [title |-> "Sunset", description |-> "Evening light", category |-> "Nature",
     location |-> "Goa", date |-> "2024-05-01", camera |-> "Nikon", tags |-> <<"sky", "sea">>]

MetaFields == {"title", "description", "category", "location", "date", "camera", "tags"}

\* thumbnail paths a user may type
CustomThumbs == {"./images/sunthumb.jpg"}

\* one hand edit of an entry: the user fills in the metadata and also retargets
\* the thumbnail, deletes the thumbnail field, or writes the image path without
\* its leading "./"
EditKinds == {"thumbnail", "nothumbnail", "shortimage"}

WithUserMeta(e) ==
    [k \in DOMAIN e \cup MetaFields |-> IF k \in MetaFields THEN UserMeta[k] ELSE e[k]]

Edited(e, kind, t) ==
    IF kind = "thumbnail" THEN SetField(WithUserMeta(e), "thumbnail", t)
    ELSE IF kind = "nothumbnail" THEN DelField(WithUserMeta(e), "thumbnail")
    ELSE IF Has(e, "image") /\ StartsWith(e["image"], "./")
         THEN SetField(WithUserMeta(e), "image", SubSeq(e["image"], 3, Len(e["image"])))
    ELSE WithUserMeta(e)

UserEditsEntry(i, kind, t) ==
    /\ pc = "idle"
    /\ edits < MaxEdits
    /\ galleryFile.kind = "json"
    /\ i \in 1..Len(galleryFile.data)
    /\ Edited(galleryFile.data[i], kind, t) # galleryFile.data[i]
    /\ galleryFile' = json_dumps([galleryFile.data EXCEPT ![i] = Edited(@, kind, t)])
    /\ edits' = edits + 1
    /\ last' = NoRun
    /\ UNCHANGED <<blog, runs, imagesDir, im, dir, pc, pending, tmp>>

\* gallery.json is damaged: json.loads will reject it
UserBreaksCatalog ==
    /\ pc = "idle"
    /\ edits < MaxEdits
    /\ galleryFile.kind = "json"
    /\ galleryFile' = Garbage
    /\ edits' = edits + 1
    /\ last' = NoRun
    /\ UNCHANGED <<blog, runs, imagesDir, im, dir, pc, pending, tmp>>

\* the catalog is rewritten as an object that holds a list: json.loads accepts
\* it, and it is not a list of entries
UserWrapsCatalog ==
    /\ pc = "idle"
    /\ edits < MaxEdits
    /\ galleryFile.kind = "json"
    /\ galleryFile' = WrappedCatalog
    /\ edits' = edits + 1
    /\ last' = NoRun
    /\ UNCHANGED <<blog, runs, imagesDir, im, dir, pc, pending, tmp>>

\* rmdir images: the empty directory is removed
RemoveImagesDir ==
    /\ pc = "idle"
    /\ imagesDir
    /\ dir = <<>> /\ galleryFile = Absent /\ tmp = NoTmp
    /\ imagesDir' = FALSE
    /\ last' = NoRun
    /\ UNCHANGED <<blog, runs, im, dir, galleryFile, edits, pc, pending, tmp>>

\* mkdir images
MakeImagesDir ==
    /\ pc = "idle"
    /\ ~imagesDir
    /\ imagesDir' = TRUE
    /\ last' = NoRun
    /\ UNCHANGED <<blog, runs, im, dir, galleryFile, edits, pc, pending, tmp>>

\* entries a catalog may hold: one per user file
MaxEntries == Cardinality(UserFiles)

User ==
    \/ \E name \in UserFiles : \E content \in Contents(name) : AddFile(name, content)
    \/ \E name \in DOMAIN dir : RemoveFile(name)
    \/ \E i \in 1..MaxEntries : \E kind \in EditKinds : \E t \in CustomThumbs :
           UserEditsEntry(i, kind, t)
    \/ UserBreaksCatalog
    \/ UserWrapsCatalog
    \/ RemoveImagesDir
    \/ MakeImagesDir

-----------------------------------------------------------------------------
(* A run of main() as one step (no failure in atomic_write) *)

Run(cwd) ==
    /\ pc = "idle"
    /\ IF ~imagesDir
       THEN /\ imagesDir' = MissingDir.made
            /\ galleryFile' = MissingDir.file
            /\ last' = EarlyExit(MissingDir.status)
            /\ UNCHANGED dir
       ELSE IF BuildLookupRaises(galleryFile)
       THEN /\ last' = Raised
            /\ UNCHANGED <<imagesDir, dir, galleryFile>>
       ELSE LET m == MainBody(dir, galleryFile, cwd)
                w == atomic_write(galleryFile, json_dumps(m.gallery))
            IN /\ dir' = m.dir
               /\ galleryFile' = IF m.changed THEN w.gallery ELSE galleryFile
               /\ last' = RunRecord(m, dir, galleryFile, m.changed, last)
               /\ UNCHANGED imagesDir
    /\ UNCHANGED <<blog, runs, im, edits, pc, pending, tmp>>

Next ==
    \/ User
    \/ \E cwd \in Cwds : Run(cwd)

Spec == Init /\ [][Next]_vars

-----------------------------------------------------------------------------
(* A run of main() with atomic_write taken step by step; the run may be     *)
(* killed, or a system call of atomic_write may fail, at every step          *)

\* lines 96-166: main() up to the call of atomic_write
RunMain(cwd) ==
    /\ pc = "idle"
    /\ IF ~imagesDir
       THEN /\ imagesDir' = MissingDir.made
            /\ galleryFile' = MissingDir.file
            /\ last' = EarlyExit(MissingDir.status)
            /\ UNCHANGED <<dir, pc, pending>>
       ELSE IF BuildLookupRaises(galleryFile)
       THEN /\ last' = Raised
            /\ UNCHANGED <<imagesDir, dir, galleryFile, pc, pending>>
       ELSE LET m == MainBody(dir, galleryFile, cwd)
            IN /\ dir' = m.dir
               /\ pc' = IF m.changed THEN "mkstemp" ELSE "idle"
               /\ pending' = IF m.changed
                             THEN [active |-> TRUE, data |-> json_dumps(m.gallery),
                                   rec |-> RunRecord(m, dir, galleryFile, TRUE, last)]
                             ELSE NoPending
               /\ last' = IF m.changed THEN NoRun
                          ELSE RunRecord(m, dir, galleryFile, FALSE, last)
               /\ UNCHANGED <<imagesDir, galleryFile>>
    /\ UNCHANGED <<blog, runs, im, edits, tmp>>

\* line 69
Mkstemp ==
    /\ pc = "mkstemp"
    /\ tmp' = EmptyTmp
    /\ pc' = "write"
    /\ UNCHANGED <<blog, runs, imagesDir, im, dir, galleryFile, edits, pending, last>>

\* line 71: part of the text has reached the temporary file
WritePart ==
    /\ pc = "write"
    /\ galleryFile' = AfterPartialWrite(galleryFile, pending.data).gallery
    /\ tmp' = AfterPartialWrite(galleryFile, pending.data).tmp
    /\ pc' = "close"
    /\ UNCHANGED <<blog, runs, imagesDir, im, dir, edits, pending, last>>

\* lines 70-71: the with block is left, all of the text is in the temporary file
CloseTmp ==
    /\ pc = "close"
    /\ galleryFile' = AfterWrite(galleryFile, pending.data).gallery
    /\ tmp' = AfterWrite(galleryFile, pending.data).tmp
    /\ pc' = "replace"
    /\ UNCHANGED <<blog, runs, imagesDir, im, dir, edits, pending, last>>

\* line 72
Replace ==
    /\ pc = "replace"
    /\ galleryFile' = AfterReplace(galleryFile, tmp).gallery
    /\ tmp' = AfterReplace(galleryFile, tmp).tmp
    /\ pc' = "idle"
    /\ last' = pending.rec
    /\ pending' = NoPending
    /\ UNCHANGED <<blog, runs, imagesDir, im, dir, edits>>

\* the run ends inside atomic_write: the process is killed, or mkstemp, write,
\* close or os.replace raises OSError, which nothing catches.  The temporary
\* file, if made, stays in images/.
Abort(cause) ==
    /\ pc # "idle"
    /\ pc' = "idle"
    /\ tmp' = IF pc = "mkstemp" THEN tmp ELSE StaleTmp
    /\ last' = [ran |-> FALSE, aborted |-> TRUE, how |-> "aborted",
                status |-> IF cause = "killed" THEN 137 ELSE 1,
                cause |-> cause, at |-> pc,
                file0 |-> pending.rec.file0, data |-> pending.data]
    /\ pending' = NoPending
    /\ UNCHANGED <<blog, runs, imagesDir, im, dir, galleryFile, edits>>

AbortCauses == {"killed", "oserror"}

\* the user of the step-by-step specification: files come and go, and the
\* catalog may be damaged
UserFilesOnly ==
    \/ \E name \in UserFiles : \E content \in Contents(name) : AddFile(name, content)
    \/ \E name \in DOMAIN dir : RemoveFile(name)
    \/ UserBreaksCatalog
    \/ UserWrapsCatalog
    \/ RemoveImagesDir
    \/ MakeImagesDir

NextWrite ==
    \/ UserFilesOnly
    \/ \E cwd \in Cwds : RunMain(cwd)
    \/ Mkstemp
    \/ WritePart
    \/ CloseTmp
    \/ Replace
    \/ \E cause \in AbortCauses : Abort(cause)

SpecWrite == Init /\ [][NextWrite]_vars

-----------------------------------------------------------------------------
(* A run of main() that may be killed inside the loop over the image files     *)

\* lines 101-159: main() after the first k image files have been processed
LoopPrefix(d, file, cwd, k) ==
    LET gallery == load_gallery(file)
        st0 == [gallery |-> gallery, max_id |-> MaxId(gallery), changed |-> FALSE,
                new_entries |-> <<>>, dir |-> d, failed |-> {}, created |-> {}]
    IN Loop(st0, SubSeq(ImageFiles(d), 1, k), Existing(gallery), cwd)

\* the process was killed at line "at" of a run on directory d and gallery.json file
KillRecord(at, d, file) ==
    [ran |-> FALSE, aborted |-> TRUE, how |-> "aborted", status |-> 137,
     cause |-> "killed", at |-> at, dir0 |-> d, file0 |-> file]

\* lines 117-164: the process is killed after k image files were processed,
\* before gallery.json is written
KilledInLoop(cwd, k) ==
    /\ pc = "idle"
    /\ imagesDir
    /\ ~BuildLookupRaises(galleryFile)
    /\ k \in 0..Len(ImageFiles(dir))
    /\ dir' = LoopPrefix(dir, galleryFile, cwd, k).dir
    /\ last' = KillRecord("loop", dir, galleryFile)
    /\ UNCHANGED <<blog, runs, imagesDir, im, galleryFile, edits, pc, pending, tmp>>

\* line 48: the process is killed while im.save writes the thumbnail of the
\* k-th image file: part of the JPEG is in the file at the thumbnail path
KilledInSave(cwd, k) ==
    /\ pc = "idle"
    /\ imagesDir
    /\ ~BuildLookupRaises(galleryFile)
    /\ k \in 1..Len(ImageFiles(dir))
    /\ LET img == ImageFiles(dir)[k]
           d1 == LoopPrefix(dir, galleryFile, cwd, k - 1).dir
       IN /\ img \notin SkippedNames
          /\ ThumbOf[img] \notin DOMAIN d1
          /\ Decodable(d1[img])
          /\ dir' = [x \in DOMAIN d1 \cup {ThumbOf[img]} |->
                        IF x = ThumbOf[img] THEN "partial" ELSE d1[x]]
    /\ last' = KillRecord("save", dir, galleryFile)
    /\ UNCHANGED <<blog, runs, imagesDir, im, galleryFile, edits, pc, pending, tmp>>

\* the most image files a directory holds: the user's files and their thumbnails
MaxFiles == Cardinality(AllNames)

NextKill ==
    \/ \E name \in UserFiles : \E content \in Contents(name) : AddFile(name, content)
    \/ \E name \in DOMAIN dir : RemoveFile(name)
    \/ \E cwd \in Cwds : Run(cwd)
    \/ \E cwd \in Cwds : \E k \in 0..MaxFiles : KilledInLoop(cwd, k)
    \/ \E cwd \in Cwds : \E k \in 1..MaxFiles : KilledInSave(cwd, k)

SpecKill == Init /\ [][NextKill]_vars

-----------------------------------------------------------------------------
(* make_center_square applied to images of every size up to MaxSide           *)

\* lines 43-44: create_thumbnail has opened an image of some size
InitCrop ==
    /\ dir = <<>>
    /\ galleryFile = Absent
    /\ edits = 0
    /\ pc = "idle"
    /\ pending = NoPending
    /\ tmp = NoTmp
    /\ last = NoRun
    /\ imagesDir = TRUE
    /\ runs = NoRuns
    /\ blog = NoBlogs
    /\ im \in {[w |-> w, h |-> h, cropped |-> FALSE, box |-> <<0, 0, 0, 0>>] :
                  w \in 1..MaxSide, h \in 1..MaxSide}

\* line 45: im = make_center_square(im)
Crop ==
    /\ ~im.cropped
    /\ im' = [im EXCEPT !.cropped = TRUE, !.box = make_center_square(im.w, im.h)]
    /\ UNCHANGED <<blog, runs, dir, galleryFile, edits, pc, pending, tmp, last, imagesDir>>

NextCrop == Crop

SpecCrop == InitCrop /\ [][NextCrop]_vars

-----------------------------------------------------------------------------
(* Two runs of main() at once on the same images directory.  Each run has its  *)
(* own gallery, lookup, list of files and counters; the directory,             *)
(* gallery.json and the temporary files are shared.  Both runs are started     *)
(* from BASE_DIR.  One step is the start of a run, one iteration of its loop,  *)
(* or one call of atomic_write.                                                 *)

Procs == {1, 2}

\* the names tempfile.mkstemp(prefix="gallery-") may pick
TmpNames == {"gallery-aaaaaaaa", "gallery-bbbbbbbb"}

\* a temporary file at a fixed path instead of the one mkstemp picks
mkstemp_FixedName(names) == {"gallery-aaaaaaaa"}

\* line 69: mkstemp opens with O_EXCL, the name it returns is of no file in images/
mkstemp(names) == TmpNames \ names

\* a run that has not started
NotStarted ==
    [pc |-> "start", files |-> <<>>, k |-> 0, existing |-> <<>>,
     st |-> [gallery |-> <<>>, max_id |-> 0, changed |-> FALSE, new_entries |-> <<>>,
             dir |-> <<>>, failed |-> {}, created |-> {}],
     data |-> Absent, tmp_path |-> "", replaced |-> FALSE]

\* the files the user added while no run was going on
TwoFiles == {"a.JPG", "a.jpg", "b.jpeg"}

\* the directories that hold exactly the files of S
DirsOf(S) == {d \in [S -> {"jpeg", "corrupt"}] : \A n \in S : d[n] \in Contents(n)}

\* what an earlier run left of the files d0, and the files e added since
InitTwo ==
    /\ edits = 0
    /\ pc = "idle"
    /\ pending = NoPending
    /\ tmp = NoTmp
    /\ last = NoRun
    /\ imagesDir = TRUE
    /\ im = NoImage
    /\ blog = NoBlogs
    /\ \E S \in SUBSET TwoFiles : \E d0 \in DirsOf(S) :
       \E T \in SUBSET (TwoFiles \ S) : \E e \in DirsOf(T) :
          LET o == Outcome(d0, Absent, "base")
          IN /\ dir = [x \in DOMAIN o.dir \cup T |-> IF x \in T THEN e[x] ELSE o.dir[x]]
             /\ galleryFile = o.file
             /\ runs = [active |-> TRUE, file0 |-> o.file, tmpfiles |-> <<>>,
                        run |-> [p \in Procs |-> NotStarted]]

\* lines 101-115: the catalog is loaded, the lookup built, the files listed
StartTwo(p) ==
    /\ runs.run[p].pc = "start"
    /\ ~BuildLookupRaises(galleryFile)
    /\ LET gallery == load_gallery(galleryFile)
       IN runs' = [runs EXCEPT !.run[p] =
                     [@ EXCEPT !.pc = "loop",
                               !.files = ImageFiles(dir),
                               !.k = 1,
                               !.existing = Existing(gallery),
                               !.st = [@ EXCEPT !.gallery = gallery,
                                                !.max_id = MaxId(gallery)]]]
    /\ UNCHANGED <<blog, imagesDir, im, dir, galleryFile, edits, pc, pending, tmp, last>>

\* lines 117-159: one iteration of the loop, on the directory as it is now
IterateTwo(p) ==
    LET r == runs.run[p]
    IN /\ r.pc = "loop"
       /\ r.k <= Len(r.files)
       /\ LET st == ProcessImage([r.st EXCEPT !.dir = dir], r.files[r.k], r.existing, "base")
          IN /\ dir' = st.dir
             /\ runs' = [runs EXCEPT !.run[p] =
                           [@ EXCEPT !.k = @ + 1, !.st = [st EXCEPT !.dir = <<>>]]]
       /\ UNCHANGED <<blog, imagesDir, im, galleryFile, edits, pc, pending, tmp, last>>

\* lines 161-170: the new entries are appended and the text to write is made,
\* or nothing has changed and the run ends
DecideTwo(p) ==
    LET r == runs.run[p]
    IN /\ r.pc = "loop"
       /\ r.k > Len(r.files)
       /\ runs' = [runs EXCEPT !.run[p] =
                     IF r.st.changed
                     THEN [@ EXCEPT !.pc = "mkstemp", !.data = json_dumps(FinalGallery(r.st))]
                     ELSE [@ EXCEPT !.pc = "done"]]
       /\ UNCHANGED <<blog, imagesDir, im, dir, galleryFile, edits, pc, pending, tmp, last>>

\* line 69
MkstempTwo(p) ==
    /\ runs.run[p].pc = "mkstemp"
    /\ \E name \in mkstemp(DOMAIN runs.tmpfiles) :
          runs' = [runs EXCEPT !.tmpfiles = SetField(@, name, EmptyTmp),
                               !.run[p] = [@ EXCEPT !.pc = "write", !.tmp_path = name]]
    /\ UNCHANGED <<blog, imagesDir, im, dir, galleryFile, edits, pc, pending, tmp, last>>

\* line 71: part of the text has reached the temporary file
WritePartTwo(p) ==
    LET r == runs.run[p]
    IN /\ r.pc = "write"
       /\ r.tmp_path \in DOMAIN runs.tmpfiles
       /\ galleryFile' = AfterPartialWrite(galleryFile, r.data).gallery
       /\ runs' = [runs EXCEPT !.tmpfiles[r.tmp_path] = AfterPartialWrite(galleryFile, r.data).tmp,
                               !.run[p] = [@ EXCEPT !.pc = "close"]]
       /\ UNCHANGED <<blog, imagesDir, im, dir, edits, pc, pending, tmp, last>>

\* lines 70-71: the with block is left, all of the text is in the temporary file
CloseTmpTwo(p) ==
    LET r == runs.run[p]
    IN /\ r.pc = "close"
       /\ r.tmp_path \in DOMAIN runs.tmpfiles
       /\ galleryFile' = AfterWrite(galleryFile, r.data).gallery
       /\ runs' = [runs EXCEPT !.tmpfiles[r.tmp_path] = AfterWrite(galleryFile, r.data).tmp,
                               !.run[p] = [@ EXCEPT !.pc = "replace"]]
       /\ UNCHANGED <<blog, imagesDir, im, dir, edits, pc, pending, tmp, last>>

\* line 72: the temporary file, whatever it holds now, becomes gallery.json
ReplaceTwo(p) ==
    LET r == runs.run[p]
    IN /\ r.pc = "replace"
       /\ r.tmp_path \in DOMAIN runs.tmpfiles
       /\ galleryFile' = AfterReplace(galleryFile, runs.tmpfiles[r.tmp_path]).gallery
       /\ runs' = [runs EXCEPT !.tmpfiles = DelField(@, r.tmp_path),
                               !.run[p] = [@ EXCEPT !.pc = "done", !.replaced = TRUE]]
       /\ UNCHANGED <<blog, imagesDir, im, dir, edits, pc, pending, tmp, last>>

NextTwo ==
    \E p \in Procs :
        \/ StartTwo(p)
        \/ IterateTwo(p)
        \/ DecideTwo(p)
        \/ MkstempTwo(p)
        \/ WritePartTwo(p)
        \/ CloseTmpTwo(p)
        \/ ReplaceTwo(p)

SpecTwo == InitTwo /\ [][NextTwo]_vars

-----------------------------------------------------------------------------
(* scripts/blog_index_update.py: BlogIndexGenerator.  A datetime is a pair    *)
(* <<day, tick>>: the calendar day as the number yyyymmdd and the time of     *)
(* day as a tick; strptime without a time field gives tick 0                   *)

Digits == "0123456789"

\* the value of a digit, -1 for any other character
DigitOf(c) == IndexIn(Digits, c) - 1

AllDigits(s) ==
    /\ Len(s) > 0
    /\ \A i \in 1..Len(s) : DigitOf(CharAt(s, i)) >= 0

RECURSIVE ToNat(_)
ToNat(s) ==
    IF Len(s) = 0 THEN 0
    ELSE 10 * ToNat(SubSeq(s, 1, Len(s) - 1)) + DigitOf(CharAt(s, Len(s)))

\* str.find(c) counted from 1; 0 when c is not in s
Find(s, c) ==
    IF \E i \in 1..Len(s) : CharAt(s, i) = c
    THEN CHOOSE i \in 1..Len(s) :
            /\ CharAt(s, i) = c
            /\ \A j \in 1..(i - 1) : CharAt(s, j) # c
    ELSE 0

\* the month names %B accepts, compared without case
MonthNames == <<"january", "february", "march", "april", "may", "june", "july",
                "august", "september", "october", "november", "december">>

MonthOf(name) ==
    IF \E m \in 1..12 : MonthNames[m] = Lower(name)
    THEN CHOOSE m \in 1..12 : MonthNames[m] = Lower(name)
    ELSE 0

IsLeap(y) == (y % 4 = 0 /\ y % 100 # 0) \/ y % 400 = 0

DaysIn(y, m) ==
    IF m = 2 THEN (IF IsLeap(y) THEN 29 ELSE 28)
    ELSE IF m \in {4, 6, 9, 11} THEN 30 ELSE 31

\* the day strptime returns for a year (%Y: four digits), a month number and
\* a day (%d: one or two digits); 0 stands for ValueError
DayNumber(ys, m, ds) ==
    IF /\ AllDigits(ys) /\ Len(ys) = 4 /\ ToNat(ys) >= 1
       /\ m \in 1..12
       /\ AllDigits(ds) /\ Len(ds) \in 1..2
       /\ ToNat(ds) \in 1..DaysIn(ToNat(ys), m)
    THEN ToNat(ys) * 10000 + m * 100 + ToNat(ds)
    ELSE 0

\* %m: one or two digits
MonthNumber(ms) == IF AllDigits(ms) /\ Len(ms) \in 1..2 THEN ToNat(ms) ELSE 0

\* s cut at the first two occurrences of the separator c; <<>> if there are not two
Split3(s, c) ==
    LET i == Find(s, c)
        rest == SubSeq(s, i + 1, Len(s))
        j == Find(rest, c)
    IN IF i = 0 \/ j = 0 THEN <<>>
       ELSE <<SubSeq(s, 1, i - 1), SubSeq(rest, 1, j - 1), SubSeq(rest, j + 1, Len(rest))>>

\* datetime.strptime(date_str, '%B %d, %Y')
strptime_long(s) ==
    LET sp == Find(s, " ")
        rest == SubSeq(s, sp + 1, Len(s))
        cm == Find(rest, ",")
    IN IF sp = 0 \/ cm = 0 \/ SubSeq(rest, cm + 1, cm + 1) # " " THEN 0
       ELSE DayNumber(SubSeq(rest, cm + 2, Len(rest)), MonthOf(SubSeq(s, 1, sp - 1)),
                      SubSeq(rest, 1, cm - 1))

\* datetime.strptime(date_str, '%Y-%m-%d')
strptime_iso(s) ==
    LET p == Split3(s, "-")
    IN IF p = <<>> THEN 0 ELSE DayNumber(p[1], MonthNumber(p[2]), p[3])

\* datetime.strptime(date_str, '%m/%d/%Y')
strptime_us(s) ==
    LET p == Split3(s, "/")
    IN IF p = <<>> THEN 0 ELSE DayNumber(p[3], MonthNumber(p[1]), p[2])

\* the dates written in the blog files: the three formats, a day that does
\* not exist, and the empty string read for a blog without a date
DateStrings == {"March 10, 2024", "2024-03-05", "03/01/2024", "2024-02-30", ""}

\* lines 53-57: the first format that parses, 0 if none does
ParsedDay ==
    [s \in DateStrings |->
        IF strptime_long(s) # 0 THEN strptime_long(s)
        ELSE IF strptime_iso(s) # 0 THEN strptime_iso(s)
        ELSE strptime_us(s)]

\* parse_date(date_str) called when datetime.now() is now
parse_date(date_str, now) ==
    IF ParsedDay[date_str] # 0 THEN <<ParsedDay[date_str], 0>> ELSE now

\* a < b on datetimes
DtLess(a, b) == a[1] < b[1] \/ (a[1] = b[1] /\ a[2] < b[2])

\* sorted(..., reverse=True) on the keys: the indices of the input in the order
\* of the result; the sort is stable, so equal keys keep their input order
RECURSIVE StableDescending(_, _, _)
StableDescending(keys, k, acc) ==
    IF k > Len(keys) THEN acc
    ELSE LET pos == Cardinality({j \in 1..Len(acc) : ~DtLess(keys[acc[j]], keys[k])})
         IN StableDescending(keys, k + 1,
                SubSeq(acc, 1, pos) \o <<k>> \o SubSeq(acc, pos + 1, Len(acc)))

RECURSIVE StableAscending(_, _, _)
StableAscending(keys, k, acc) ==
    IF k > Len(keys) THEN acc
    ELSE LET pos == Cardinality({j \in 1..Len(acc) : ~DtLess(keys[k], keys[acc[j]])})
         IN StableAscending(keys, k + 1,
                SubSeq(acc, 1, pos) \o <<k>> \o SubSeq(acc, pos + 1, Len(acc)))

\* the keys the lambda of line 64 computes: nows[i] is datetime.now() at the
\* time the key of blogs[i] is computed
SortKeys(blogs, nows) ==
    [i \in 1..Len(blogs) |-> parse_date(Get(blogs[i], "date", ""), nows[i])]

\* sort_blogs_by_date without reverse=True
sort_blogs_by_date_OldestFirst(blogs, nows) ==
    LET order == StableAscending(SortKeys(blogs, nows), 1, <<>>)
    IN [i \in 1..Len(blogs) |-> blogs[order[i]]]

\* sort_blogs_by_date(blogs)
sort_blogs_by_date(blogs, nows) ==
    LET order == StableDescending(SortKeys(blogs, nows), 1, <<>>)
    IN [i \in 1..Len(blogs) |-> blogs[order[i]]]

\* generate_blog_article_html(blog, index, is_featured): the class of the
\* article, the featured badge, the title and the date shown
generate_blog_article_html(b, index, is_featured) ==
    [class |-> "list-item" \o (IF is_featured THEN " featured" ELSE ""),
     badge |-> IF is_featured THEN "Featured" ELSE "",
     title |-> Get(b, "title", "Untitled Blog Post"),
     date  |-> Get(b, "date", "Date Unknown")]

\* the item generate_blogs_list_html emits for an empty list
NoPostsItem ==
    [class |-> "list-item", badge |-> "", title |-> "No Blog Posts Available", date |-> ""]

\* generate_blogs_list_html(blogs): the articles in order
generate_blogs_list_html(blogs) ==
    IF Len(blogs) = 0 THEN <<NoPostsItem>>
    ELSE [i \in 1..Len(blogs) |-> generate_blog_article_html(blogs[i], i - 1, i - 1 = 0)]

\* update_blogs_html(blogs, output_path) with a loaded template: the content
\* list written into the page
update_blogs_html(blogs, nows) ==
    generate_blogs_list_html(sort_blogs_by_date(blogs, nows))

\* the titles of the blog files
BlogTitles == [i \in 1..9 |-> "post-" \o CharAt(Digits, i + 1)]

\* a blog file with a date, or without one
BlogFile(i, date) ==
    IF date = "" THEN [title |-> BlogTitles[i]]
    ELSE [title |-> BlogTitles[i], date |-> date]

\* the days datetime.now() may fall on: before, between and after the dates
Todays == {20240101, 20240307, 20250101}

\* the templates: a page, and an empty file
Templates == {"page", ""}

\* the time of day of the i-th call of datetime.now(): the clock never goes back
RECURSIVE TickAt(_, _)
TickAt(adv, i) == IF i = 0 THEN 0 ELSE TickAt(adv, i - 1) + adv[i]

\* the generator constructed on a template, and the blogs load_blog_json_files
\* returned, in the order glob listed them
InitBlog ==
    /\ dir = <<>>
    /\ galleryFile = Absent
    /\ edits = 0
    /\ pc = "idle"
    /\ pending = NoPending
    /\ tmp = NoTmp
    /\ last = NoRun
    /\ imagesDir = TRUE
    /\ im = NoImage
    /\ runs = NoRuns
    /\ \E n \in 0..MaxBlogs : \E dates \in [1..n -> DateStrings] :
       \E today \in Todays : \E template \in Templates :
          blog = [stage |-> "loaded", template |-> template, today |-> today,
                  blogs |-> [i \in 1..n |-> BlogFile(i, dates[i])],
                  keys |-> <<>>, output |-> <<>>]

\* lines 215-262: update_blogs_html
UpdateBlogsHtml ==
    /\ blog.stage = "loaded"
    /\ IF blog.template = ""
       THEN blog' = [blog EXCEPT !.stage = "raised"]
       ELSE \E adv \in [1..Len(blog.blogs) -> {0, 1}] :
               LET nows == [i \in 1..Len(blog.blogs) |-> <<blog.today, TickAt(adv, i)>>]
               IN blog' = [blog EXCEPT !.stage = "written",
                                       !.keys = SortKeys(blog.blogs, nows),
                                       !.output = update_blogs_html(blog.blogs, nows)]
    /\ UNCHANGED <<dir, galleryFile, edits, pc, pending, tmp, last, imagesDir, im, runs>>

NextBlog == UpdateBlogsHtml

SpecBlog == InitBlog /\ [][NextBlog]_vars

-----------------------------------------------------------------------------
(* Vocabulary of the properties *)

\* the catalog the last run loaded, and the catalog gallery.json holds now
OldCatalog == load_gallery(last.file0)
NewCatalog == load_gallery(galleryFile)

\* the image file an entry is about exists in directory d
ImagePresent(e, d) ==
    /\ Has(e, "image")
    /\ \E f \in DOMAIN d : e["image"] \in {"./images/" \o f, "images/" \o f}

\* the file an entry's thumbnail field names exists in directory d
ThumbnailPresent(e, d) ==
    /\ Has(e, "thumbnail")
    /\ \E f \in DOMAIN d : e["thumbnail"] \in {"./images/" \o f, "images/" \o f}

SameMeta(e1, e2) ==
    \A k \in MetaFields : Has(e1, k) = Has(e2, k) /\ (Has(e1, k) => e1[k] = e2[k])

PairwiseDistinct(g, field) ==
    \A i, j \in 1..Len(g) : i < j => g[i][field] # g[j][field]

-----------------------------------------------------------------------------
(* C2 *)

\* C2: metadata preservation.  After a run, every entry that was in the catalog
\* before it and whose image file exists has the same title, description,
\* category, location, date, camera and tags as before, also when the run has
\* rewritten its thumbnail field.
C2_MetadataPreserved ==
    last.ran =>
        /\ Len(NewCatalog) >= last.loaded
        /\ \A i \in 1..last.loaded :
               ImagePresent(OldCatalog[i], last.dir0) => SameMeta(OldCatalog[i], NewCatalog[i])

\* a run has rewritten the thumbnail field of an entry that carries user metadata
C2_Witness ==
    /\ last.ran
    /\ \E i \in 1..last.loaded :
           /\ ImagePresent(OldCatalog[i], last.dir0)
           /\ OldCatalog[i]["title"] = "Sunset"
           /\ Get(OldCatalog[i], "thumbnail", "") # Get(NewCatalog[i], "thumbnail", "")

-----------------------------------------------------------------------------
(* C1 *)

\* C1: idempotence.  A run that immediately follows a completed run, with no
\* change to the images directory or gallery.json in between, creates no
\* thumbnail, does not write gallery.json and leaves both as they were.
C1_SecondRunWritesNothing ==
    (last.ran /\ last.second) =>
        /\ last.created = {}
        /\ ~last.wrote
        /\ dir = last.dir0
        /\ galleryFile = last.file0

-----------------------------------------------------------------------------
(* C4 *)

-----------------------------------------------------------------------------
(* C5 *)

\* directory d without the files of F
Without(d, F) == [x \in DOMAIN d \ F |-> d[x]]

\* C5: per-image failure isolation.  When thumbnail generation fails for some
\* images the run still completes; a failing image gets no new entry and its
\* existing entry is not modified; the catalog and the thumbnails the run
\* leaves are those of a run, from the same working directory, on the same
\* directory without the failing images.
C5_FailureIsolated ==
    (last.ran /\ last.failed # {}) =>
        /\ \A f \in last.failed :
               /\ \A i \in 1..Len(NewCatalog) :
                      (i > last.loaded) => NewCatalog[i]["image"] # "./images/" \o f
               /\ \A i \in 1..last.loaded :
                      OldCatalog[i]["image"] \in {"./images/" \o f, "images/" \o f}
                          => NewCatalog[i] = OldCatalog[i]
        /\ \A cwd \in Cwds :
               Outcome(last.dir0, last.file0, cwd) = [dir |-> dir, file |-> galleryFile]
                   => /\ Outcome(Without(last.dir0, last.failed), last.file0, cwd).dir
                            = Without(dir, last.failed)
                      /\ Outcome(Without(last.dir0, last.failed), last.file0, cwd).file
                            = galleryFile

\* a run in which one image failed and another image, sorted after it, was
\* given its thumbnail and its entry
C5_Witness ==
    /\ last.ran
    /\ "a.JPG" \in last.failed
    /\ "a-thumb.jpg" \in last.created
    /\ \E i \in 1..Len(NewCatalog) : i > last.loaded /\ NewCatalog[i]["image"] = "./images/a.jpg"

-----------------------------------------------------------------------------
(* C6 *)

\* C6: a run never overwrites the thumbnail field of an existing entry when the
\* field names a file that exists under images/, even if it is not the derived
\* path.
C6_ExistingThumbnailKept ==
    last.ran =>
        \A i \in 1..last.loaded :
            ThumbnailPresent(OldCatalog[i], last.dir0)
                => Get(NewCatalog[i], "thumbnail", "") = OldCatalog[i]["thumbnail"]

-----------------------------------------------------------------------------
(* C7 *)

\* the file the entry's image field names is not in directory d
ImageVanished(e, d) == ~ImagePresent(e, d)
\* the entry names a thumbnail and that file is not in directory d
ThumbnailVanished(e, d) == Get(e, "thumbnail", "") # "" /\ ~ThumbnailPresent(e, d)

\* C7 as claimed: an entry whose source image or thumbnail file has vanished is
\* still in the catalog after the run, unchanged and in the same position.
C7_VanishedEntryUnchanged ==
    last.ran =>
        /\ Len(NewCatalog) >= last.loaded
        /\ \A i \in 1..last.loaded :
               (ImageVanished(OldCatalog[i], last.dir0)
                    \/ ThumbnailVanished(OldCatalog[i], last.dir0))
                   => NewCatalog[i] = OldCatalog[i]

\* C7 as amended: no run removes or moves an entry; every loaded entry keeps
\* its position and all its fields other than thumbnail, an entry whose source
\* image has vanished is unchanged, and a thumbnail field is changed only for
\* an entry whose image is present, to a file that exists.
C7_EntriesRetained ==
    last.ran =>
        /\ Len(NewCatalog) >= last.loaded
        /\ \A i \in 1..last.loaded :
               /\ DelField(NewCatalog[i], "thumbnail") = DelField(OldCatalog[i], "thumbnail")
               /\ ImageVanished(OldCatalog[i], last.dir0) => NewCatalog[i] = OldCatalog[i]
               /\ NewCatalog[i] # OldCatalog[i] => ThumbnailPresent(NewCatalog[i], dir)

\* a run has written a catalog that still holds, in place, an entry whose
\* source image is gone
C7_Witness ==
    /\ last.ran /\ last.wrote
    /\ \E i \in 1..last.loaded :
           /\ ImageVanished(OldCatalog[i], last.dir0)
           /\ NewCatalog[i] = OldCatalog[i]
           /\ Len(NewCatalog) > last.loaded

-----------------------------------------------------------------------------
(* C8 *)

\* C8: id uniqueness.  In every catalog a sequence of runs starting with no
\* catalog leaves, with files added and removed and entries edited by hand
\* between the runs, the ids are pairwise distinct.
C8_IdsDistinct ==
    galleryFile.kind = "json" => PairwiseDistinct(galleryFile.data, "id")

\* a run has added an entry to a catalog that already held two
C8_Witness ==
    /\ last.ran /\ last.wrote
    /\ last.loaded >= 2
    /\ Len(NewCatalog) > last.loaded

-----------------------------------------------------------------------------
(* C9 *)

\* C9: id stability.  A run leaves the id of every entry it loaded unchanged,
\* and every id it assigns is a positive integer.
C9_IdsStable ==
    last.ran =>
        /\ Len(NewCatalog) >= last.loaded
        /\ \A i \in 1..Len(NewCatalog) :
               IF i <= last.loaded
               THEN NewCatalog[i]["id"] = OldCatalog[i]["id"]
               ELSE NewCatalog[i]["id"] \in Nat \ {0}

\* a run has added an entry whose image sorts before that of a loaded entry
C9_Witness ==
    /\ last.ran
    /\ \E i, j \in 1..Len(NewCatalog) :
           /\ i <= last.loaded /\ j > last.loaded
           /\ NewCatalog[i]["image"] = "./images/a.jpg"
           /\ NewCatalog[j]["image"] = "./images/a.JPG"

-----------------------------------------------------------------------------
(* C10 *)

\* the image path with a leading "./" removed
Bare(p) == IF SubSeq(p, 1, 2) = "./" THEN SubSeq(p, 3, Len(p)) ELSE p

\* C10: image uniqueness.  If the image values of the loaded catalog are
\* pairwise distinct, so are those of the catalog after the run, and no entry
\* the run adds is about an image file a loaded entry is already about.
C10_ImagesDistinct ==
    last.ran =>
        /\ PairwiseDistinct(OldCatalog, "image") => PairwiseDistinct(NewCatalog, "image")
        /\ \A j \in 1..Len(NewCatalog) : \A i \in 1..last.loaded :
               j > last.loaded => Bare(NewCatalog[j]["image"]) # Bare(OldCatalog[i]["image"])

\* a run has found the entry of an image whose path the user wrote without
\* "./", and has added an entry for another image
C10_Witness ==
    /\ last.ran
    /\ \E i \in 1..last.loaded :
           /\ ~StartsWith(OldCatalog[i]["image"], "./")
           /\ ImagePresent(OldCatalog[i], last.dir0)
    /\ Len(NewCatalog) > last.loaded

-----------------------------------------------------------------------------
(* C3 *)

\* C3: catalog write atomicity.  At every step of a run, and after a run that
\* was killed or failed inside atomic_write, gallery.json holds either the
\* content it had before the run or the complete new catalog, never a
\* truncated text.
C3_CatalogNeverPartial ==
    /\ galleryFile.kind \notin {"truncated", "empty"}
    /\ pending.active => galleryFile \in {pending.rec.file0, pending.data}
    /\ last.aborted => galleryFile \in {last.file0, last.data}

\* a run was killed after part of the new catalog had been written, over a
\* catalog that held entries
C3_Witness ==
    /\ last.aborted
    /\ last.at = "close"
    /\ tmp = StaleTmp
    /\ last.file0.kind = "json"
    /\ galleryFile = last.file0

-----------------------------------------------------------------------------
(* C11 *)

\* C11: conditional persistence.  A run writes gallery.json if and only if the
\* catalog in memory differs from the loaded one, that is, an entry was added
\* or a thumbnail field was set; otherwise gallery.json is left as it was, and
\* is not created when the directory is empty and there is no gallery.json.
C11_WritesIffChanged ==
    last.ran =>
        /\ last.wrote <=> last.differs
        /\ last.wrote =>
               /\ galleryFile.kind = "json"
               /\ \/ Len(NewCatalog) > last.loaded
                  \/ \E i \in 1..last.loaded :
                         Get(NewCatalog[i], "thumbnail", "") # Get(OldCatalog[i], "thumbnail", "")
        /\ ~last.wrote => galleryFile = last.file0
        /\ (last.dir0 = <<>> /\ last.file0 = Absent) => galleryFile = Absent

\* a run has visited an entry whose thumbnail the user had retargeted, has kept
\* it and has not written gallery.json
C11_Witness ==
    /\ last.ran /\ ~last.wrote /\ ~last.second
    /\ galleryFile = last.file0
    /\ \E i \in 1..last.loaded :
           /\ ImagePresent(OldCatalog[i], last.dir0)
           /\ Get(OldCatalog[i], "thumbnail", "") = "./images/sunthumb.jpg"

-----------------------------------------------------------------------------
(* C12 *)

\* entry e is a new entry for file f: the paths of f and the default metadata
IsFreshEntryFor(e, f) ==
    /\ e["image"] = "./images/" \o f
    /\ e["thumbnail"] = "./images/" \o ThumbOf[f]
    /\ e["description"] = "NaN" /\ e["category"] = "None" /\ e["location"] = "None"
    /\ e["date"] = "2000-01-01" /\ e["camera"] = "None" /\ e["tags"] = <<"None">>

\* the files of directory d the run gave, or found, a thumbnail
WithThumbnail(d, failed) ==
    {f \in DOMAIN d : f \in ImageNames /\ f \notin SkippedNames /\ f \notin failed}

\* C12: catalog load recovery.  A run over an absent or unparsable gallery.json
\* does not fail: it starts from an empty catalog, every source image whose
\* thumbnail was obtained gets exactly one new entry with the default metadata,
\* and when the run writes, gallery.json holds the new catalog.
C12_LoadRecovered ==
    /\ last.how = "raised" => galleryFile.kind \notin {"absent", "garbage"}
    /\ (last.ran /\ last.file0.kind \in {"absent", "garbage"}) =>
           /\ last.status = 0
           /\ last.loaded = 0
           /\ \A f \in WithThumbnail(last.dir0, last.failed) :
                  Cardinality({j \in 1..Len(NewCatalog) : IsFreshEntryFor(NewCatalog[j], f)}) = 1
           /\ Len(NewCatalog) = Cardinality(WithThumbnail(last.dir0, last.failed))
           /\ last.wrote => galleryFile.kind = "json"

\* a run has replaced an unparsable gallery.json by a catalog of two new entries
C12_Witness ==
    /\ last.ran /\ last.wrote
    /\ last.file0 = Garbage
    /\ galleryFile.kind = "json"
    /\ Len(NewCatalog) >= 2

-----------------------------------------------------------------------------
(* C13 *)

\* C13: when the images directory does not exist the run is a no-op: it makes
\* no directory, no thumbnail, no catalog file and no temporary file, and ends
\* with exit status 0.
C13_MissingDirNoOp ==
    last.how = "nodir" =>
        /\ ~imagesDir
        /\ dir = <<>>
        /\ galleryFile = Absent
        /\ tmp = NoTmp
        /\ last.status = 0

\* a run was started after the images directory had been removed
C13_Witness ==
    /\ last.how = "nodir"
    /\ ~imagesDir
    /\ pc = "idle"

-----------------------------------------------------------------------------
(* C14 *)

\* the last run was ended by a signal, not by the program
Killed == last.aborted /\ last.cause = "killed"

\* C14: exit status.  A run that ends by itself ends with status 0 when it
\* succeeds, changes or no changes, and ends with a non-zero status, or with
\* an exception, only when writing the catalog file fails.
C14_NonZeroOnlyOnWriteFailure ==
    (last.how # "none" /\ ~Killed) =>
        /\ last.how \in {"completed", "nodir"} => last.status = 0
        /\ last.status # 0 => (last.aborted /\ last.cause = "oserror")

-----------------------------------------------------------------------------
(* C15 *)

\* C15: path-normalized lookup.  When a loaded entry stores the path of an
\* image file as "./images/<name>" or as "images/<name>", the run adds no entry
\* for that file.
C15_NormalizedLookup ==
    last.ran =>
        \A f \in DOMAIN last.dir0 :
            (\E i \in 1..last.loaded :
                 Get(OldCatalog[i], "image", "") \in {"./images/" \o f, "images/" \o f})
                => \A j \in 1..Len(NewCatalog) :
                       j > last.loaded => NewCatalog[j]["image"] # "./images/" \o f

\* a run has found the entries of two image files, one stored with "./" and one
\* without, and has added nothing
C15_Witness ==
    /\ last.ran
    /\ Len(NewCatalog) = last.loaded
    /\ \E f, g \in WithThumbnail(last.dir0, last.failed) :
           /\ \E i \in 1..last.loaded : Get(OldCatalog[i], "image", "") = "images/" \o f
           /\ \E i \in 1..last.loaded : Get(OldCatalog[i], "image", "") = "./images/" \o g

-----------------------------------------------------------------------------
(* C16 *)

\* Path(name).stem of every file name, computed once
StemOf == [n \in AllNames |-> Stem(n)]

Placeholders == {"None", "NaN"}

\* C16 as claimed: every entry a run creates has title, description, category,
\* location and camera set to "None" or "NaN", and tags set to ["None"].
C16_AllPlaceholders ==
    last.ran =>
        \A j \in 1..Len(NewCatalog) :
            j > last.loaded =>
                /\ \A k \in {"title", "description", "category", "location", "camera"} :
                       NewCatalog[j][k] \in Placeholders
                /\ NewCatalog[j]["tags"] = <<"None">>

\* C16 as amended: every entry a run creates has title set to the name of its
\* image file without the extension, description set to "NaN", category,
\* location and camera set to "None", and tags set to ["None"].
C16_DefaultMetadata ==
    last.ran =>
        \A j \in 1..Len(NewCatalog) :
            j > last.loaded =>
                /\ \E f \in DOMAIN last.dir0 :
                       /\ NewCatalog[j]["image"] = "./images/" \o f
                       /\ NewCatalog[j]["title"] = StemOf[f]
                /\ NewCatalog[j]["description"] = "NaN"
                /\ \A k \in {"category", "location", "camera"} : NewCatalog[j][k] = "None"
                /\ NewCatalog[j]["tags"] = <<"None">>

\* a run has created the entry of b.jpeg in a catalog that holds an entry with
\* the user's metadata
C16_Witness ==
    /\ last.ran /\ last.wrote
    /\ \E i \in 1..last.loaded : OldCatalog[i]["title"] = "Sunset"
    /\ \E j \in 1..Len(NewCatalog) :
           /\ j > last.loaded
           /\ NewCatalog[j]["image"] = "./images/b.jpeg"
           /\ NewCatalog[j]["title"] = "b"

-----------------------------------------------------------------------------
(* C17 *)

\* the image files that had no entry in the loaded catalog
Uncatalogued(d, failed, g) ==
    {f \in WithThumbnail(d, failed) :
        \A i \in 1..Len(g) : Get(g[i], "image", "") \notin {"./images/" \o f, "images/" \o f}}

\* C17 as claimed: every entry a run creates has image ./images/<stem>.jpg and
\* thumbnail ./images/<stem>-thumb.jpg, <stem> being the name without extension
\* of the source image file it was created for, whatever the extension.
C17_ImageIsStemJpg ==
    last.ran =>
        \A j \in 1..Len(NewCatalog) :
            j > last.loaded =>
                \E f \in Uncatalogued(last.dir0, last.failed, OldCatalog) :
                    /\ NewCatalog[j]["image"] = "./images/" \o StemOf[f] \o ".jpg"
                    /\ NewCatalog[j]["thumbnail"] = "./images/" \o StemOf[f] \o "-thumb.jpg"

\* C17 as amended: every source image file without an entry gets one entry,
\* whose image is ./images/<file name>, the extension as it is on disk, and
\* whose thumbnail is ./images/<stem>-thumb.jpg.
C17_PathsOfNewEntry ==
    last.ran =>
        /\ \A j \in 1..Len(NewCatalog) :
               j > last.loaded =>
                   \E f \in Uncatalogued(last.dir0, last.failed, OldCatalog) :
                       /\ NewCatalog[j]["image"] = "./images/" \o f
                       /\ NewCatalog[j]["thumbnail"] = "./images/" \o StemOf[f] \o "-thumb.jpg"
        /\ \A f \in Uncatalogued(last.dir0, last.failed, OldCatalog) :
               Cardinality({j \in 1..Len(NewCatalog) :
                               j > last.loaded /\ NewCatalog[j]["image"] = "./images/" \o f}) = 1

\* one run has created the entries of a.JPG and of b.jpeg
C17_Witness ==
    /\ last.ran /\ last.wrote
    /\ \E j, k \in 1..Len(NewCatalog) :
           /\ j > last.loaded /\ k > last.loaded
           /\ NewCatalog[j]["image"] = "./images/a.JPG"
           /\ NewCatalog[j]["thumbnail"] = "./images/a-thumb.jpg"
           /\ NewCatalog[k]["image"] = "./images/b.jpeg"
           /\ NewCatalog[k]["thumbnail"] = "./images/b-thumb.jpg"

-----------------------------------------------------------------------------
(* C18 *)

\* the file names whose stem ends with the thumbnail suffix "-thumb"
HasThumbSuffix == {n \in AllNames : EndsWith(Stem(n), THUMB_SUFFIX)}

\* file f has its thumbnail and its catalog entry
TreatedAsSource(f) ==
    /\ ThumbOf[f] \in DOMAIN dir
    /\ \E j \in 1..Len(NewCatalog) :
           Get(NewCatalog[j], "image", "") \in {"./images/" \o f, "images/" \o f}

\* C18: source/thumbnail partition.  After a run, a .jpg/.jpeg file of the
\* images directory has a thumbnail and a catalog entry if and only if its name
\* without extension does not end with "-thumb".  Stated for the files whose
\* content can be decoded, which is the part of the claim that does not rest on
\* thumbnail generation succeeding.
C18_SourceIffNoThumbSuffix ==
    last.ran =>
        \A f \in DOMAIN last.dir0 :
            (f \in ImageNames /\ Decodable(last.dir0[f]))
                => (TreatedAsSource(f) <=> f \notin HasThumbSuffix)

-----------------------------------------------------------------------------
(* C20 *)

\* C20: thumbnail field repair.  For a loaded entry whose image file is present
\* and whose thumbnail was obtained, the run sets the thumbnail field to the
\* derived path exactly when the field is missing or empty, or differs from the
\* derived path and names a file that does not exist; otherwise the entry is
\* left as it was.
C20_RepairedExactlyWhenDangling ==
    last.ran =>
        \A i \in 1..last.loaded : \A f \in WithThumbnail(last.dir0, last.failed) :
            Get(OldCatalog[i], "image", "") \in {"./images/" \o f, "images/" \o f} =>
                LET derived == "./images/" \o ThumbOf[f]
                    old == Get(OldCatalog[i], "thumbnail", "")
                    dangling == old # derived /\ ~ThumbnailPresent(OldCatalog[i], last.dir0)
                IN IF old = "" \/ dangling
                   THEN NewCatalog[i] = SetField(OldCatalog[i], "thumbnail", derived)
                   ELSE NewCatalog[i] = OldCatalog[i]

-----------------------------------------------------------------------------
(* C19 *)

\* the margins the crop box leaves on each side of the image
LeftMargin == im.box[1]
TopMargin == im.box[2]
RightMargin == im.w - im.box[3]
BottomMargin == im.h - im.box[4]

\* C19: square-crop correctness.  For every size W x H, W, H >= 1, the box of
\* make_center_square is a square of side min(W, H) that lies inside the image;
\* the left and right margins differ by at most 1, and so do the top and bottom
\* margins, the odd pixel being on the right and at the bottom.
C19_SquareCentered ==
    im.cropped =>
        /\ im.box[3] - im.box[1] = (IF im.w < im.h THEN im.w ELSE im.h)
        /\ im.box[4] - im.box[2] = (IF im.w < im.h THEN im.w ELSE im.h)
        /\ LeftMargin >= 0 /\ TopMargin >= 0 /\ RightMargin >= 0 /\ BottomMargin >= 0
        /\ RightMargin - LeftMargin \in {0, 1}
        /\ BottomMargin - TopMargin \in {0, 1}

\* an image whose width exceeds its height by an odd number has been cropped,
\* with a margin on the left
C19_Witness ==
    /\ im.cropped
    /\ im.w > im.h
    /\ (im.w - im.h) % 2 = 1
    /\ LeftMargin >= 1
    /\ RightMargin = LeftMargin + 1

-----------------------------------------------------------------------------
(* C21 *)

\* the pairs of file names in ascending order, computed once
LessName == {p \in AllNames \X AllNames : StrLess(p[1], p[2])}

\* C21: id assignment and ordering.  The loaded entries keep their places; the
\* new entries of a run follow them in ascending order of file name and get
\* the ids m+1, m+2, ..., m being the largest id of the loaded catalog, 0 when
\* it is empty.
C21_AppendedInOrderWithNextIds ==
    last.ran =>
        LET ids == {Get(OldCatalog[i], "id", 0) : i \in 1..last.loaded} \cup {0}
            m == CHOOSE x \in ids : \A y \in ids : y <= x
        IN /\ Len(NewCatalog) >= last.loaded
           /\ \A i \in 1..last.loaded : NewCatalog[i]["image"] = OldCatalog[i]["image"]
           /\ \A j \in 1..Len(NewCatalog) :
                  j > last.loaded => NewCatalog[j]["id"] = m + (j - last.loaded)
           /\ \A j, k \in 1..Len(NewCatalog) :
                  (last.loaded < j /\ j < k) =>
                      \E f, g \in DOMAIN last.dir0 :
                          /\ NewCatalog[j]["image"] = "./images/" \o f
                          /\ NewCatalog[k]["image"] = "./images/" \o g
                          /\ <<f, g>> \in LessName

\* a run has added two entries to a catalog that held one
C21_Witness ==
    /\ last.ran /\ last.wrote
    /\ last.loaded >= 1
    /\ Len(NewCatalog) >= last.loaded + 2
    /\ NewCatalog[last.loaded + 1]["id"] = OldCatalog[last.loaded]["id"] + 1

-----------------------------------------------------------------------------
(* C22 *)

\* C22: file-system frame.  A run leaves every file that was in the images
\* directory in place with its content; the files it saves are thumbnails at
\* paths where no file was, and nothing else appears in the directory.
C22_ExistingFilesUntouched ==
    last.ran =>
        /\ \A f \in DOMAIN last.dir0 : f \in DOMAIN dir /\ dir[f] = last.dir0[f]
        /\ DOMAIN dir \ DOMAIN last.dir0 = last.created
        /\ last.created \cap DOMAIN last.dir0 = {}
        /\ \A t \in last.created : \E f \in DOMAIN last.dir0 : t = StemOf[f] \o "-thumb.jpg"

\* a run has found the thumbnail of one image in place and has made the
\* thumbnail of another
C22_Witness ==
    /\ last.ran
    /\ last.created # {}
    /\ \E f \in WithThumbnail(last.dir0, last.failed) : ThumbOf[f] \in DOMAIN last.dir0

-----------------------------------------------------------------------------
(* C23 *)

\* C23: entries only for images with a thumbnail.  Every entry a run adds or
\* updates names a thumbnail file that exists when gallery.json is written, and
\* no entry is added or updated for an image whose thumbnail could not be made.
C23_WrittenEntryHasThumbnail ==
    last.ran =>
        \A i \in 1..Len(NewCatalog) :
            (i > last.loaded \/ NewCatalog[i] # OldCatalog[i]) =>
                /\ ThumbnailPresent(NewCatalog[i], dir)
                /\ \A f \in last.failed :
                       NewCatalog[i]["image"] \notin {"./images/" \o f, "images/" \o f}

\* a run has added an entry and has updated another while the thumbnail of a
\* third image could not be made
C23_Witness ==
    /\ last.ran /\ last.wrote
    /\ last.failed # {}
    /\ Len(NewCatalog) > last.loaded
    /\ \E i \in 1..last.loaded : NewCatalog[i] # OldCatalog[i]

-----------------------------------------------------------------------------
(* C24 *)

\* the names of the thumbnails of thumbnails, and the image paths of thumbnails
ReThumbNames == {ThumbName(n) : n \in HasThumbSuffix}
ThumbImagePaths == {"./images/" \o n : n \in HasThumbSuffix}

\* C24: thumbnails are never catalogued or re-thumbnailed.  In every state no
\* entry of gallery.json has an image whose name ends in -thumb and no file
\* <stem>-thumb-thumb.jpg is in the directory.
C24_ThumbnailsNotSources ==
    /\ DOMAIN dir \cap ReThumbNames = {}
    /\ galleryFile.kind = "json" =>
           \A i \in 1..Len(galleryFile.data) : galleryFile.data[i]["image"] \notin ThumbImagePaths

\* a run has enumerated the thumbnails an earlier run wrote and has added an
\* entry for a new image
C24_Witness ==
    /\ last.ran /\ last.wrote
    /\ last.loaded >= 1
    /\ \E t \in DOMAIN last.dir0 : t \in HasThumbSuffix /\ t \in ImageNames
    /\ Len(NewCatalog) > last.loaded

-----------------------------------------------------------------------------
(* C27 *)

\* C27: distinct source images have distinct thumbnails.  The thumbnail paths
\* derived for two different source image files of a run differ, and no two
\* entries a run creates have the same thumbnail value.
C27_DistinctThumbnails ==
    last.ran =>
        /\ \A f, g \in WithThumbnail(last.dir0, last.failed) :
               f # g => ThumbOf[f] # ThumbOf[g]
        /\ \A j, k \in 1..Len(NewCatalog) :
               (last.loaded < j /\ j < k) =>
                   NewCatalog[j]["thumbnail"] # NewCatalog[k]["thumbnail"]

-----------------------------------------------------------------------------
(* C28 *)

\* C28: working-directory independence.  What a run leaves, thumbnails and
\* catalog, is what a run on the same directory and gallery.json leaves from
\* every working directory.
C28_SameFromEveryCwd ==
    last.ran =>
        \A cwd \in Cwds :
            Outcome(last.dir0, last.file0, cwd) = [dir |-> dir, file |-> galleryFile]

-----------------------------------------------------------------------------
(* C25 *)

\* C25: recovery after an interrupted run.  When a run is killed inside the
\* loop or before the catalog write and the next run completes on the
\* directory as the killed run left it, gallery.json is what one uninterrupted
\* run would have left, with the same ids.
C25_RecoveredCatalog ==
    (last.ran /\ last.recovers.active) =>
        \A cwd \in Cwds :
            galleryFile = Outcome(last.recovers.dir0, last.recovers.file0, cwd).file

-----------------------------------------------------------------------------
(* C26 *)

\* C26: thumbnail writes are all-or-nothing.  No file with part of a thumbnail
\* is ever at a thumbnail path, so no completed run has taken such a file for
\* the thumbnail of an image it catalogues.
C26_NoPartialThumbnail ==
    /\ \A f \in DOMAIN dir : dir[f] # "partial"
    /\ last.ran =>
           \A f \in WithThumbnail(last.dir0, last.failed) : dir[ThumbOf[f]] # "partial"

-----------------------------------------------------------------------------
(* C30 *)

\* the calendar day, as yyyymmdd, that each well-formed date of the blog files names
CalendarDay ==
    ("March 10, 2024" :> 20240310) @@ ("2024-03-05" :> 20240305) @@ ("03/01/2024" :> 20240301)

\* the parsed date of a listed article: its calendar day at midnight, or, for a
\* date no format accepts, the time at which its key was computed
ParsedDateOf(item) ==
    IF item.date \in DOMAIN CalendarDay THEN <<CalendarDay[item.date], 0>>
    ELSE blog.keys[CHOOSE i \in 1..Len(blog.blogs) : blog.blogs[i].title = item.title]

Featured(item) == item.class = "list-item featured" \/ item.badge # ""

\* C30: the page update_blogs_html writes lists every loaded blog once, newest
\* parsed date first; when a blog is listed the first article, and no other, is
\* featured; with no blogs the list is the single "No Blog Posts Available"
\* item and nothing is featured
C30_NewestFirstOneFeatured ==
    blog.stage = "written" =>
        LET out == blog.output
        IN IF Len(blog.blogs) = 0
           THEN /\ Len(out) = 1
                /\ out[1].title = "No Blog Posts Available"
                /\ ~Featured(out[1])
           ELSE /\ Len(out) = Len(blog.blogs)
                /\ {out[i].title : i \in 1..Len(out)}
                      = {blog.blogs[i].title : i \in 1..Len(blog.blogs)}
                /\ \A i, j \in 1..Len(out) :
                      i < j => ~DtLess(ParsedDateOf(out[i]), ParsedDateOf(out[j]))
                /\ {i \in 1..Len(out) : Featured(out[i])} = {1}
                /\ out[1].class = "list-item featured"

\* three blogs loaded oldest first, one in each date format, are listed newest first
C30_Witness ==
    /\ blog.stage = "written"
    /\ Len(blog.blogs) = 3
    /\ [i \in 1..3 |-> blog.blogs[i].title] = <<"post-1", "post-2", "post-3">>
    /\ [i \in 1..3 |-> Get(blog.blogs[i], "date", "")]
          = <<"03/01/2024", "2024-03-05", "March 10, 2024">>
    /\ [i \in 1..3 |-> blog.output[i].title] = <<"post-3", "post-2", "post-1">>
    /\ Featured(blog.output[1])

-----------------------------------------------------------------------------
(* C29 *)

\* the runs that hold a temporary file
HoldsTmp(p) == runs.run[p].pc \in {"write", "close", "replace"}

\* C29: two runs at once.  At every moment gallery.json is the catalog the runs
\* started from or all of the text one of the runs has put in place; two runs
\* that hold a temporary file hold different files; and when both runs have
\* ended the catalog has no two entries with the same image or the same id.
C29_TwoRunsKeepCatalogWhole ==
    runs.active =>
        /\ \/ galleryFile = runs.file0
           \/ \E p \in Procs : runs.run[p].replaced /\ galleryFile = runs.run[p].data
        /\ galleryFile.kind \in {"absent", "json"}
        /\ \A p, q \in Procs :
              (p # q /\ HoldsTmp(p) /\ HoldsTmp(q)) =>
                  runs.run[p].tmp_path # runs.run[q].tmp_path
        /\ (\A p \in Procs : runs.run[p].pc = "done") =>
              LET g == load_gallery(galleryFile)
              IN /\ PairwiseDistinct(g, "id")
                 /\ \A i, j \in 1..Len(g) : i < j => Bare(g[i]["image"]) # Bare(g[j]["image"])

\* both runs loaded the catalog they started from, neither saw the other's, and
\* each has put a catalog of its own in place of it, the second one last
C29_Witness ==
    /\ runs.active
    /\ \A p \in Procs :
          /\ runs.run[p].pc = "done"
          /\ runs.run[p].replaced
          /\ runs.run[p].st.gallery = load_gallery(runs.file0)
    /\ runs.run[1].data # runs.run[2].data
    /\ runs.run[1].tmp_path # runs.run[2].tmp_path
    /\ galleryFile = runs.run[2].data

=============================================================================
